---- MODULE Spec2Model ----
(***************************************************************************)
(* StreamFuzz (src/stream.py): an interactive shell that collects a run    *)
(* configuration and, on Start, probes every (path, method) pair of the    *)
(* candidate list through an asyncio.Semaphore gate, collects the URLs     *)
(* whose status is accepted in found_endpoints and writes them, sorted,    *)
(* to the output file.                                                     *)
(*                                                                         *)
(* Python strings are modelled as sequences of one-character strings, so   *)
(* that strip/lstrip/rstrip/split/sorted are computed, not assumed.        *)
(***************************************************************************)
EXTENDS Integers, Sequences, FiniteSets, TLC

(***************************************************************************)
(* Characters and string helpers (Python str methods used by the source).  *)
(***************************************************************************)

\* Code points of the characters the model's strings are built from
\* (Python compares str by code point).
CharCode ==
    [c \in {"\n", " ", ",", "/", "0", "1", "2", "3", "4", "5", "6", "7", "8", "9",
            ":", "A", "D", "E", "G", "H", "T", "W", "_", ".", "{", "}",
            "a", "b", "d", "e", "g", "h", "i", "l", "m", "n", "o", "p", "r", "s",
            "t", "u", "w", "x"} |->
        CASE c = "\n" -> 10 [] c = " " -> 32 [] c = "," -> 44 [] c = "." -> 46
          [] c = "/" -> 47
          [] c = "0" -> 48 [] c = "1" -> 49 [] c = "2" -> 50 [] c = "3" -> 51
          [] c = "4" -> 52 [] c = "5" -> 53 [] c = "6" -> 54 [] c = "7" -> 55
          [] c = "8" -> 56 [] c = "9" -> 57 [] c = ":" -> 58
          [] c = "A" -> 65 [] c = "D" -> 68 [] c = "E" -> 69 [] c = "G" -> 71
          [] c = "H" -> 72 [] c = "T" -> 84 [] c = "W" -> 87 [] c = "_" -> 95
          [] c = "a" -> 97 [] c = "b" -> 98 [] c = "d" -> 100 [] c = "e" -> 101
          [] c = "g" -> 103
          [] c = "h" -> 104 [] c = "i" -> 105 [] c = "l" -> 108 [] c = "m" -> 109
          [] c = "n" -> 110 [] c = "o" -> 111 [] c = "p" -> 112 [] c = "r" -> 114
          [] c = "s" -> 115 [] c = "t" -> 116 [] c = "u" -> 117 [] c = "w" -> 119
          [] c = "x" -> 120 [] c = "{" -> 123 [] c = "}" -> 125]

\* Characters str.strip() removes.
Whitespace == {" ", "\n"}

\* s.lstrip(c): drop every leading character in the set cs.
RECURSIVE LStrip(_, _)
LStrip(s, cs) ==
    IF s # <<>> /\ Head(s) \in cs THEN LStrip(Tail(s), cs) ELSE s

\* s.rstrip(c): drop every trailing character in the set cs.
RECURSIVE RStrip(_, _)
RStrip(s, cs) ==
    IF s # <<>> /\ s[Len(s)] \in cs
    THEN RStrip(SubSeq(s, 1, Len(s) - 1), cs)
    ELSE s

\* s.strip(): drop leading and trailing whitespace.
Strip(s) == RStrip(LStrip(s, Whitespace), Whitespace)

\* Index of the first occurrence of character c in s, or 0.
FirstIndex(s, c) ==
    IF \E i \in 1..Len(s) : s[i] = c
    THEN CHOOSE i \in 1..Len(s) : s[i] = c /\ \A j \in 1..(i - 1) : s[j] # c
    ELSE 0

\* s.split(c): the pieces between the separators, empty pieces kept.
RECURSIVE Split(_, _)
Split(s, c) ==
    LET k == FirstIndex(s, c) IN
    IF k = 0 THEN <<s>>
    ELSE <<SubSeq(s, 1, k - 1)>> \o Split(SubSeq(s, k + 1, Len(s)), c)

\* Iterating a text file: the lines, each with its terminating newline,
\* the last one without when the file does not end in a newline.
RECURSIVE FileLines(_)
FileLines(data) ==
    LET k == FirstIndex(data, "\n") IN
    IF data = <<>> THEN <<>>
    ELSE IF k = 0 THEN <<data>>
    ELSE <<SubSeq(data, 1, k)>> \o FileLines(SubSeq(data, k + 1, Len(data)))

\* Python's str comparison a < b: lexicographic by code point.
RECURSIVE StrLess(_, _)
StrLess(a, b) ==
    IF b = <<>> THEN FALSE
    ELSE IF a = <<>> THEN TRUE
    ELSE IF Head(a) = Head(b) THEN StrLess(Tail(a), Tail(b))
    ELSE CharCode[Head(a)] < CharCode[Head(b)]

\* The members of a set of strings in descending order.
RECURSIVE SortedDescending(_)
SortedDescending(S) ==
    IF S = {} THEN <<>>
    ELSE LET m == CHOOSE x \in S : \A y \in S \ {x} : StrLess(y, x)
         IN  <<m>> \o SortedDescending(S \ {m})

\* sorted(S) of a set of strings: ascending list of its members.
RECURSIVE Sorted(_)
Sorted(S) ==
    IF S = {} THEN <<>>
    ELSE LET m == CHOOSE x \in S : \A y \in S \ {x} : StrLess(x, y)
         IN  <<m>> \o Sorted(S \ {m})

\* The elements of a list, as a set.
Range(s) == {s[i] : i \in 1..Len(s)}

\* int(s) for a string of decimal digits.
RECURSIVE DigitsValue(_)
DigitsValue(s) ==
    IF s = <<>> THEN 0
    ELSE 10 * DigitsValue(SubSeq(s, 1, Len(s) - 1))
         + (CharCode[s[Len(s)]] - 48)

\* int(s): Python raises ValueError unless s is a decimal numeral.
IsInt(s) == s # <<>> /\ \A i \in 1..Len(s) : CharCode[s[i]] \in 48..57

\* Python values that may be None: None, or a value.
None == [some |-> FALSE, val |-> <<>>]
Some(v) == [some |-> TRUE, val |-> v]

\* A truth test that takes every value, the unset target included, as set.
TruthyAlways(x) == TRUE

\* Python truthiness of an optional string ("not x" is its negation).
Truthy(x) == x.some /\ x.val # <<>>

\* "a or b" on optional strings.
Or(a, b) == IF Truthy(a) THEN a ELSE b

(***************************************************************************)
(* Bounds of the model.                                                    *)
(***************************************************************************)

\* Gate size; the source sets 100, the model a size the batches exceed.
MAX_CONCURRENT_REQUESTS == 2

\* How many entries of the built-in list the model keeps.
NumCommon == 1

\* How many times the operator selects Start with a target set.
MaxRuns == 1

\* How many times the operator selects Configure.
MaxConfigures == 1

(***************************************************************************)
(* Program constants (src/stream.py lines 9-17).                           *)
(***************************************************************************)

DEFAULT_WORDLIST ==
    <<"W", "o", "r", "d", "l", "i", "s", "t", "/", "p", "r", "o", "_", "1", "0",
      "0", ".", "t", "x", "t">>

DEFAULT_OUTPUT == <<"r", "e", "s", "u", "l", "t", "s", ".", "t", "x", "t">>

\* A JSON object is modelled as the set of its <<key, value>> members.
DEFAULT_HEADERS == {}

DEFAULT_COOKIES == {}

VALID_STATUS_CODES == [i \in 1..100 |-> 199 + i] \o <<401, 403>>

DEFAULT_METHODS == << <<"H", "E", "A", "D">> >>

AllCommonPaths ==
    << <<"/", "a", "d", "m", "i", "n">>,
       <<"/", "l", "o", "g", "i", "n">>,
       <<"/", "d", "a", "s", "h", "b", "o", "a", "r", "d">>,
       <<"/", "u", "s", "e", "r">>,
       <<"/", "a", "p", "i">> >>

\* The built-in list, cut to the model's bound.
COMMON_PATHS == SubSeq(AllCommonPaths, 1, NumCommon)

(***************************************************************************)
(* Pure parts of StreamFuzz.                                               *)
(***************************************************************************)

\* __init__: self.base_url = base_url.rstrip('/').
NormalizeBase(url) == RStrip(url, {"/"})

\* A join that keeps the candidate's leading separators.
FetchUrlNoStrip(base, path) == base \o <<"/">> \o path

\* _fetch: url = f"{self.base_url}/{path.lstrip('/')}".
FetchUrl(base, path) == base \o <<"/">> \o LStrip(path, {"/"})

\* A status check against the default policy instead of the run's.
AcceptedDefault(status, codes) == status \in Range(VALID_STATUS_CODES)

\* _fetch: response.status in self.valid_status_codes.
Accepted(status, codes) == status \in Range(codes)

\* An insertion that replaces the set.
AddEndpointOverwrite(found, url) == {url}

\* _fetch: self.found_endpoints.add(url).
AddEndpoint(found, url) == found \cup {url}

\* _process_paths: the (path, method) pairs in the order of the nested loops.
WorkList(ps, ms) ==
    IF Len(ms) = 0 THEN <<>>
    ELSE [k \in 1..(Len(ps) * Len(ms)) |->
            [path   |-> ps[((k - 1) \div Len(ms)) + 1],
             method |-> ms[((k - 1) % Len(ms)) + 1]]]

\* _load_wordlist: the stripped non-blank lines of the file.
StrippedLines(data) ==
    LET lines == FileLines(data)
        stripped == [i \in 1..Len(lines) |-> Strip(lines[i])]
    IN  SelectSeq(stripped, LAMBDA l : l # <<>>)

\* _load_wordlist: paths before list(set(paths)); a missing file adds nothing.
RawPaths(file) ==
    (IF file.exists THEN StrippedLines(file.data) ELSE <<>>) \o COMMON_PATHS

\* A list returned as it was built, repeated elements included.
ListKeepDuplicates(ps) == {ps}

\* list(set(paths)): the distinct elements, in an order Python does not fix.
ListOfSet(ps) ==
    LET S == Range(ps)
        n == Cardinality(S)
    IN  {l \in [1..n -> S] : \A i, j \in 1..n : l[i] = l[j] => i = j}

\* _load_wordlist: the lists it may return.
LoadWordlist(file) == ListOfSet(RawPaths(file))

\* The concatenation of a list of strings.
RECURSIVE Concat(_)
Concat(ss) == IF ss = <<>> THEN <<>> ELSE Head(ss) \o Concat(Tail(ss))

\* _save_results: what the loop writes, f"{endpoint}\n" per sorted endpoint.
OutputData(found) ==
    LET es == Sorted(found)
    IN  Concat([i \in 1..Len(es) |-> es[i] \o <<"\n">>])

\* A file that does not exist, and a file holding data.
NoFile == [exists |-> FALSE, data |-> <<>>]
FileOf(data) == [exists |-> TRUE, data |-> data]

(***************************************************************************)
(* asyncio.Semaphore, as _bound_fetch uses it (async with sem).            *)
(***************************************************************************)

\* Semaphore(n): n free slots, no waiter.
NewSemaphore(n) == [value |-> n, waiters |-> <<>>]

\* A gate that only looks at the queue and hands out slots it does not have.
SemLockedIgnoresValue(s) == s.waiters # <<>>

\* locked(): no free slot, or a waiter is queued.
SemLocked(s) == s.value = 0 \/ s.waiters # <<>>

\* An acquire that lets the task in without taking a slot.
SemTakeFree(s) == s

\* acquire() when not locked: take a slot without suspending.
SemTake(s) == [s EXCEPT !.value = @ - 1]

\* acquire() when locked: queue a future for task i and suspend.
SemEnqueue(s, i) == [s EXCEPT !.waiters = Append(@, [task |-> i, woken |-> FALSE])]

\* A release that frees the slot and wakes nobody.
WakeUpNobody(s) == s

\* _wake_up_next(): hand a slot to the first waiter not yet woken.
WakeUpNext(s) ==
    LET idx == {k \in 1..Len(s.waiters) : ~s.waiters[k].woken} IN
    IF idx = {} THEN s
    ELSE LET k == CHOOSE k \in idx : \A j \in idx : k <= j
         IN  [s EXCEPT !.value = @ - 1, !.waiters[k].woken = TRUE]

\* release(): free a slot, then wake the next waiter.
SemRelease(s) == WakeUpNext([s EXCEPT !.value = @ + 1])

\* Task i's future has its result.
SemWoken(s, i) == \E k \in 1..Len(s.waiters) : s.waiters[k].task = i /\ s.waiters[k].woken

\* acquire() resumed in task i: leave the queue; wake another if a slot is free.
SemResume(s, i) ==
    LET t == [s EXCEPT !.waiters = SelectSeq(@, LAMBDA w : w.task # i)]
    IN  IF t.value > 0 THEN WakeUpNext(t) ELSE t

(***************************************************************************)
(* interactive_menu: parsing of the Configure inputs.                      *)
(***************************************************************************)

\* A setting that takes the answer as typed, blank or not.
StrOrTaken(a, b) == a

\* input(...).strip() or previous, for the string settings.
StrOr(a, b) == IF a # <<>> THEN a ELSE b

\* A JSON string without escapes.
JsonString(s) ==
    /\ Len(s) >= 2
    /\ s[1] = "\"" /\ s[Len(s)] = "\""
    /\ \A i \in 2..(Len(s) - 1) : s[i] \notin {"\"", "\\"}

\* One "key":"value" member of a JSON object.
JsonMember(m) ==
    LET kv == Split(m, ":")
    IN  Len(kv) = 2 /\ JsonString(kv[1]) /\ JsonString(kv[2])

\* json.loads accepts s; the inputs of the model are flat objects of strings
\* or malformed text, so acceptance is decided for those two shapes.
JsonOk(s) ==
    /\ Len(s) >= 2
    /\ s[1] = "{" /\ s[Len(s)] = "}"
    /\ LET inner == SubSeq(s, 2, Len(s) - 1)
       IN  inner = <<>> \/ \A m \in Range(Split(inner, ",")) : JsonMember(m)

\* json.loads(s) of an accepted s: its members, quotes removed.
JsonLoads(s) ==
    LET inner == SubSeq(s, 2, Len(s) - 1)
        unq(q) == SubSeq(q, 2, Len(q) - 1)
    IN  IF inner = <<>> THEN {}
        ELSE {<<unq(Split(m, ":")[1]), unq(Split(m, ":")[2])>> :
                 m \in Range(Split(inner, ","))}

\* list(map(int, s.split(','))) succeeds (int() ignores surrounding blanks).
IntListOk(s) == \A p \in Range(Split(s, ",")) : IsInt(Strip(p))

\* list(map(int, s.split(','))).
IntList(s) ==
    LET ps == Split(s, ",")
    IN  [i \in 1..Len(ps) |-> DigitsValue(Strip(ps[i]))]

(***************************************************************************)
(* What the operator types and what the environment holds.                 *)
(***************************************************************************)

\* Answers to "Enter target URL".
UrlInputs == {<<>>, <<"t", "/">>}

\* Answers to "Enter wordlist file path".
WordlistInputs == {<<>>, <<" ", "w">>}

\* Answers to "Enter output file path".
OutputInputs == {<<>>}

\* Answers to "Enter custom headers as JSON".
HeaderInputs == {<<>>, <<"{">>}

\* Answers to "Enter custom cookies as JSON".
CookieInputs == {<<>>, <<"{", "}", "}">>}

\* Answers to "Enter HTTP methods".
MethodInputs ==
    {<<>>, <<"G", "E", "T", ",", "G", "E", "T">>,
     <<"G", "E", "T", ",", "H", "E", "A", "D">>}

\* Answers to "Enter valid status codes".
StatusInputs == {<<>>, <<"4", "0", "4">>, <<"4", "0", "x">>}

\* Status codes the target answers with.
ServerStatus == {200, 401, 404}

\* Contents the candidate files may have when the program starts.
WordlistData ==
    {<<"a", "d", "m", "i", "n", "\n">>,
     <<" ", "\n", "x", " ", "\n", "x", "\n", "/", "a", "d", "m", "i", "n">>}

\* What an earlier run may have left in the output file.
OldOutput == <<"t", "/", "o", "l", "d", "\n">>

\* The file systems the program may start in.
InitialFiles ==
    {[n \in {DEFAULT_WORDLIST, <<"w">>, DEFAULT_OUTPUT} |->
        IF n = DEFAULT_WORDLIST THEN d
        ELSE IF n = <<"w">> THEN w
        ELSE o] :
        d \in {NoFile},
        w \in {FileOf(x) : x \in WordlistData},
        o \in {NoFile, FileOf(OldOutput)}}

\* The file at a path; a path never written does not exist.
FileAt(fs, name) == IF name \in DOMAIN fs THEN fs[name] ELSE NoFile

\* The file system after open(name, 'w') and the writes.
WriteFile(fs, name, data) == (name :> FileOf(data)) @@ fs

(***************************************************************************)
(* State.                                                                  *)
(***************************************************************************)

VARIABLES
    base_url,             \* interactive_menu locals (lines 119-125)
    wordlist,
    output_file,
    headers,
    cookies,
    methods,
    valid_status_codes,
    pc,                   \* where the program is
    console,              \* the last message the shell printed
    fuzzer,               \* the StreamFuzz object of the current run
    paths,                \* start(): the loaded candidate list
    tasks,                \* _process_paths: one _bound_fetch task per work item
    sem,                  \* _process_paths: the semaphore
    files,                \* the file system
    log,                  \* lifecycle lines of the logger
    runs,                 \* how many runs were dispatched
    configures,           \* how many Configure steps were taken
    answers               \* what was typed at the prompts of choice '2'

config == <<base_url, wordlist, output_file, headers, cookies, methods,
            valid_status_codes>>

run == <<fuzzer, paths, tasks, sem, log>>

vars == <<base_url, wordlist, output_file, headers, cookies, methods,
          valid_status_codes, pc, console, fuzzer, paths, tasks, sem, files,
          log, runs, configures, answers>>

\* Nothing was typed yet at the prompts of choice '2'.
NoAnswers ==
    [url |-> <<>>, wordlist |-> <<>>, output |-> <<>>, headers |-> <<>>,
     cookies |-> <<>>, methods |-> <<>>, status_codes |-> <<>>]

\* _fetch returned nothing (None), or a status code.
NoStatus == [some |-> FALSE, val |-> 0]
Status(n) == [some |-> TRUE, val |-> n]

\* A constructor whose found_endpoints is one set shared by every StreamFuzz
\* object: a new run starts with what the run before it found.
NewFuzzerSharedFound(b, w, o, h, c, m, v) ==
    [base_url           |-> NormalizeBase(b),
     wordlist           |-> w,
     output_file        |-> o,
     headers            |-> h,
     cookies            |-> c,
     methods            |-> m,
     valid_status_codes |-> v,
     found_endpoints    |-> fuzzer.found_endpoints,
     session            |-> "None",
     sessions           |-> 0]

\* StreamFuzz.__init__ (lines 36-45).
NewFuzzer(b, w, o, h, c, m, v) ==
    [base_url           |-> NormalizeBase(b),
     wordlist           |-> w,
     output_file        |-> o,
     headers            |-> h,
     cookies            |-> c,
     methods            |-> m,
     valid_status_codes |-> v,
     found_endpoints    |-> {},
     session            |-> "None",
     sessions           |-> 0]

\* Before the first Start no StreamFuzz object exists.
NoFuzzer ==
    [base_url           |-> <<>>,
     wordlist           |-> <<>>,
     output_file        |-> <<>>,
     headers            |-> {},
     cookies            |-> {},
     methods            |-> <<>>,
     valid_status_codes |-> <<>>,
     found_endpoints    |-> {},
     session            |-> "unbound",
     sessions           |-> 0]

\* A coroutine _bound_fetch(path, method) handed to gather, not yet run.
NewTask(item) ==
    [path    |-> item.path,
     method  |-> item.method,
     pc      |-> "created",
     status  |-> NoStatus,
     fetches |-> 0,
     log     |-> <<>>]

Init ==
    /\ base_url = None
    /\ wordlist = DEFAULT_WORDLIST
    /\ output_file = DEFAULT_OUTPUT
    /\ headers = DEFAULT_HEADERS
    /\ cookies = DEFAULT_COOKIES
    /\ methods = DEFAULT_METHODS
    /\ valid_status_codes = VALID_STATUS_CODES
    /\ pc = "menu"
    /\ console = "welcome"
    /\ fuzzer = NoFuzzer
    /\ paths = <<>>
    /\ tasks = <<>>
    /\ sem = NewSemaphore(0)
    /\ files \in InitialFiles
    /\ log = <<>>
    /\ runs = 0
    /\ configures = 0
    /\ answers = NoAnswers

(***************************************************************************)
(* interactive_menu (lines 117-182).                                       *)
(***************************************************************************)

\* choice '1' with no target: the error message, back to the menu.
StartRefused ==
    /\ pc = "menu"
    /\ ~Truthy(base_url)
    /\ console' = "set-target-first"
    /\ UNCHANGED <<config, pc, run, files, runs, configures, answers>>

\* choice '1' with a target: construct StreamFuzz, asyncio.run(fuzzer.start()).
Dispatch ==
    /\ pc = "menu"
    /\ Truthy(base_url)
    /\ console' = "starting"
    /\ fuzzer' = NewFuzzer(base_url.val, wordlist, output_file, headers, cookies,
                           methods, valid_status_codes)
    /\ pc' = "start"
    /\ runs' = runs + 1
    /\ UNCHANGED <<config, paths, tasks, sem, files, log, configures, answers>>

\* choice '1' within the number of runs explored.
Start == runs < MaxRuns /\ Dispatch

\* A Configure step that swallows a parse error: the settings it could not
\* read keep their values and the menu goes on as after a good step.
ConfigureStepSwallow(ui, wi, oi, hi, ci, mi, si) ==
    /\ pc = "menu"
    /\ configures' = configures + 1
    /\ base_url' = Or(Some(Strip(ui)), base_url)
    /\ wordlist' = StrOr(Strip(wi), wordlist)
    /\ output_file' = StrOr(Strip(oi), output_file)
    /\ pc' = "menu"
    /\ console' = "updated"
    /\ answers' = [url |-> ui, wordlist |-> wi, output |-> oi, headers |-> hi,
                   cookies |-> ci, methods |-> mi, status_codes |-> si]
    /\ UNCHANGED <<headers, cookies, methods, valid_status_codes, run, files, runs>>

\* choice '2': the seven prompts in order; json.loads or int raising ends the
\* program with the assignments made so far.
ConfigureStep(ui, wi, oi, hi, ci, mi, si) ==
    LET h == Strip(hi)
        c == Strip(ci)
        m == Strip(mi)
        s == Strip(si)
        hErr == h # <<>> /\ ~JsonOk(h)
        cErr == c # <<>> /\ ~JsonOk(c)
        sErr == s # <<>> /\ ~IntListOk(s)
    IN
    /\ pc = "menu"
    /\ configures' = configures + 1
    /\ base_url' = Or(Some(Strip(ui)), base_url)
    /\ wordlist' = StrOr(Strip(wi), wordlist)
    /\ output_file' = StrOr(Strip(oi), output_file)
    /\ headers' = IF h # <<>> /\ ~hErr THEN JsonLoads(h) ELSE headers
    /\ cookies' = IF c # <<>> /\ ~hErr /\ ~cErr THEN JsonLoads(c) ELSE cookies
    /\ methods' = IF m # <<>> /\ ~hErr /\ ~cErr THEN Split(m, ",") ELSE methods
    /\ valid_status_codes' =
           IF s # <<>> /\ ~hErr /\ ~cErr /\ ~sErr THEN IntList(s)
           ELSE valid_status_codes
    /\ pc' = IF hErr \/ cErr \/ sErr THEN "crashed" ELSE "menu"
    /\ console' = IF hErr \/ cErr \/ sErr THEN "traceback" ELSE "updated"
    /\ answers' = [url          |-> ui,
                   wordlist     |-> wi,
                   output       |-> oi,
                   headers      |-> hi,
                   cookies      |-> IF hErr THEN answers.cookies ELSE ci,
                   methods      |-> IF hErr \/ cErr THEN answers.methods ELSE mi,
                   status_codes |-> IF hErr \/ cErr THEN answers.status_codes ELSE si]
    /\ UNCHANGED <<run, files, runs>>

\* choice '2' within the number of configuration steps explored.
Configure(ui, wi, oi, hi, ci, mi, si) ==
    configures < MaxConfigures /\ ConfigureStep(ui, wi, oi, hi, ci, mi, si)

\* choice '3': print the configuration.
ViewConfig ==
    /\ pc = "menu"
    /\ console' = "configuration"
    /\ UNCHANGED <<config, pc, run, files, runs, configures, answers>>

\* choice '4': leave the loop.
Exit ==
    /\ pc = "menu"
    /\ pc' = "exited"
    /\ console' = "goodbye"
    /\ UNCHANGED <<config, run, files, runs, configures, answers>>

\* any other choice.
InvalidChoice ==
    /\ pc = "menu"
    /\ console' = "invalid"
    /\ UNCHANGED <<config, pc, run, files, runs, configures, answers>>

(***************************************************************************)
(* StreamFuzz.start and the tasks of _process_paths (lines 47-100).        *)
(***************************************************************************)

\* Logger lines: the per-attempt ones are kept with their task.
Loaded(n) == [level |-> "INFO", msg |-> "Loaded paths", n |-> n]
Saved == [level |-> "INFO", msg |-> "Results saved", n |-> 0]
NoEndpoints == [level |-> "WARNING", msg |-> "No endpoints discovered", n |-> 0]

\* start, lines 85-86: load the candidates, log their number.
StartLoad ==
    /\ pc = "start"
    /\ \E ps \in LoadWordlist(FileAt(files, fuzzer.wordlist)) :
          /\ paths' = ps
          /\ log' = Append(log, Loaded(Len(ps)))
    /\ pc' = "loaded"
    /\ UNCHANGED <<config, console, fuzzer, tasks, sem, files, runs, configures, answers>>

\* start, lines 87-89, and _process_paths up to the await of gather: open
\* the session, create the semaphore and one coroutine per work item.
ProcessPaths ==
    /\ pc = "loaded"
    /\ fuzzer' = [fuzzer EXCEPT !.session = "open", !.sessions = @ + 1]
    /\ sem' = NewSemaphore(MAX_CONCURRENT_REQUESTS)
    /\ tasks' = LET work == WorkList(paths, fuzzer.methods)
                IN  [k \in 1..Len(work) |-> NewTask(work[k])]
    /\ pc' = "gather"
    /\ UNCHANGED <<config, console, paths, files, log, runs, configures, answers>>

\* _fetch entered by task t: the request is issued and awaited.
EnterFetch(t) == [t EXCEPT !.pc = "request", !.fetches = @ + 1]

\* _bound_fetch, first step of task i: take a slot and issue the request, or
\* queue on the semaphore.
BoundFetchStart(i) ==
    /\ pc = "gather"
    /\ tasks[i].pc = "created"
    /\ IF SemLocked(sem)
       THEN /\ sem' = SemEnqueue(sem, i)
            /\ tasks' = [tasks EXCEPT ![i].pc = "waiting"]
       ELSE /\ sem' = SemTake(sem)
            /\ tasks' = [tasks EXCEPT ![i] = EnterFetch(@)]
    /\ UNCHANGED <<config, pc, console, fuzzer, paths, files, log, runs, configures, answers>>

\* _bound_fetch, task i woken with a slot: issue the request.
BoundFetchResume(i) ==
    /\ pc = "gather"
    /\ tasks[i].pc = "waiting"
    /\ SemWoken(sem, i)
    /\ sem' = SemResume(sem, i)
    /\ tasks' = [tasks EXCEPT ![i] = EnterFetch(@)]
    /\ UNCHANGED <<config, pc, console, fuzzer, paths, files, log, runs, configures, answers>>

\* A status check that withdraws the URL when the response is not accepted.
OnResponseWithdraw(f, t, status) ==
    IF Accepted(status, f.valid_status_codes)
    THEN [f EXCEPT !.found_endpoints = AddEndpoint(@, FetchUrl(f.base_url, t.path))]
    ELSE [f EXCEPT !.found_endpoints = @ \ {FetchUrl(f.base_url, t.path)}]

\* _fetch, lines 52-54, on a response with the given status.
OnResponse(f, t, status) ==
    IF Accepted(status, f.valid_status_codes)
    THEN [f EXCEPT !.found_endpoints = AddEndpoint(@, FetchUrl(f.base_url, t.path))]
    ELSE f

\* A status check that logs every response, accepted or not.
ResponseLogAlways(f, status) == <<"INFO">>

\* _fetch, line 53: the log line of a response, if any.
ResponseLog(f, status) ==
    IF Accepted(status, f.valid_status_codes) THEN <<"INFO">> ELSE <<>>

\* _fetch, lines 51-55: the response of task i's request arrives.
Response(i, status) ==
    /\ pc = "gather"
    /\ tasks[i].pc = "request"
    /\ fuzzer.session = "open"
    /\ fuzzer' = OnResponse(fuzzer, tasks[i], status)
    /\ tasks' = [tasks EXCEPT ![i].pc = "responded",
                              ![i].status = Status(status),
                              ![i].log = @ \o ResponseLog(fuzzer, status)]
    /\ UNCHANGED <<config, pc, console, paths, sem, files, log, runs, configures, answers>>

\* _fetch returns the status (line 55); _bound_fetch leaves "async with sem".
FetchReturn(i) ==
    /\ pc = "gather"
    /\ tasks[i].pc = "responded"
    /\ tasks' = [tasks EXCEPT ![i].pc = "done"]
    /\ sem' = SemRelease(sem)
    /\ UNCHANGED <<config, pc, console, fuzzer, paths, files, log, runs, configures, answers>>

\* A failure that escapes _fetch: gather raises and the run ends with the
\* unfinished tasks cancelled.
OnErrorAbort(ts, i) ==
    [k \in 1..Len(ts) |->
        IF k = i \/ ts[k].pc # "done"
        THEN [ts[k] EXCEPT !.pc = "done", !.status = NoStatus]
        ELSE ts[k]]

\* A failure handler that returns no status and logs nothing.
OnErrorSilent(ts, i) == [ts EXCEPT ![i].pc = "done", ![i].status = NoStatus]

\* What a failed request of task i leaves of the tasks (lines 56-57): an
\* error line and no status for task i, the other tasks as they were.
OnError(ts, i) ==
    [ts EXCEPT ![i].pc = "done", ![i].status = NoStatus,
               ![i].log = Append(@, "ERROR")]

\* _fetch, lines 56-57: task i's request raises; the error is logged, _fetch
\* returns None and _bound_fetch leaves "async with sem".
TransportError(i) ==
    /\ pc = "gather"
    /\ tasks[i].pc = "request"
    /\ tasks' = OnError(tasks, i)
    /\ sem' = SemRelease(sem)
    /\ UNCHANGED <<config, pc, console, fuzzer, paths, files, log, runs, configures, answers>>

\* A gather that returns with the first result.
AnyDone(ts) == \E i \in 1..Len(ts) : ts[i].pc = "done"

\* gather has every result.
AllDone(ts) == \A i \in 1..Len(ts) : ts[i].pc = "done"

\* _process_paths, line 71: gather returns once every task has finished.
GatherReturn ==
    /\ pc = "gather"
    /\ AllDone(tasks)
    /\ pc' = "save"
    /\ UNCHANGED <<config, console, run, files, runs, configures, answers>>

\* A sink that opens the output file before it looks at the set.
SaveFilesAlways(fs, f) == WriteFile(fs, f.output_file, OutputData(f.found_endpoints))

\* _save_results, lines 94-100: the file system and the log line it leaves.
SaveFiles(fs, f) ==
    IF f.found_endpoints = {} THEN fs
    ELSE WriteFile(fs, f.output_file, OutputData(f.found_endpoints))

SaveLog(f) == IF f.found_endpoints = {} THEN NoEndpoints ELSE Saved

\* A session closed by a statement after the save, which an exception skips.
ExitSessionOnSuccess(f, raised) ==
    IF raised THEN f ELSE [f EXCEPT !.session = "closed"]

\* The exit of "async with ClientSession() as session" (lines 87-90): the
\* session is closed whether the block returned or raised.
ExitSession(f, raised) == [f EXCEPT !.session = "closed"]

\* start, line 90 and the exit of "async with ClientSession()": save, close
\* the session; asyncio.run returns to the menu and the locals of start and
\* _process_paths are gone.
SaveResults ==
    /\ pc = "save"
    /\ files' = SaveFiles(files, fuzzer)
    /\ log' = Append(log, SaveLog(fuzzer))
    /\ fuzzer' = ExitSession(fuzzer, FALSE)
    /\ paths' = <<>>
    /\ tasks' = <<>>
    /\ sem' = NewSemaphore(0)
    /\ pc' = "menu"
    /\ UNCHANGED <<config, console, runs, configures, answers>>

\* _save_results, line 97: open() of the output file raises (a directory, a
\* missing folder, no permission). Nothing is written or logged, the
\* exception leaves "async with", asyncio.run and interactive_menu, which
\* has no handler: the program ends with a traceback.
SaveFails ==
    /\ pc = "save"
    /\ fuzzer.found_endpoints # {}
    /\ fuzzer' = ExitSession(fuzzer, TRUE)
    /\ paths' = <<>>
    /\ tasks' = <<>>
    /\ sem' = NewSemaphore(0)
    /\ pc' = "crashed"
    /\ console' = "traceback"
    /\ UNCHANGED <<config, files, log, runs, configures, answers>>

Next ==
    \/ StartRefused
    \/ Start
    \/ \E ui \in UrlInputs, wi \in WordlistInputs, oi \in OutputInputs,
          hi \in HeaderInputs, ci \in CookieInputs, mi \in MethodInputs,
          si \in StatusInputs : Configure(ui, wi, oi, hi, ci, mi, si)
    \/ ViewConfig
    \/ Exit
    \/ InvalidChoice
    \/ StartLoad
    \/ ProcessPaths
    \/ \E i \in 1..Len(tasks) : BoundFetchStart(i)
    \/ \E i \in 1..Len(tasks) : BoundFetchResume(i)
    \/ \E i \in 1..Len(tasks), status \in ServerStatus : Response(i, status)
    \/ \E i \in 1..Len(tasks) : FetchReturn(i)
    \/ \E i \in 1..Len(tasks) : TransportError(i)
    \/ GatherReturn
    \/ SaveResults
    \/ SaveFails

Spec == Init /\ [][Next]_vars

(***************************************************************************)
(* Properties.                                                             *)
(***************************************************************************)

\* The tasks of the batch.
Tasks == 1..Len(tasks)

\* Task i is inside _fetch: its request is started and not yet finished.
InFetch(i) == tasks[i].pc \in {"request", "responded"}

\* Task i got a response (it is past the status check of line 52).
Answered(i) == tasks[i].pc \in {"responded", "done"} /\ tasks[i].status.some

\* Task i's request raised.
Failed(i) == tasks[i].pc = "done" /\ ~tasks[i].status.some

\* Task i got a response whose status is in the run's acceptance policy.
Hit(i) ==
    Answered(i) /\ tasks[i].status.val \in Range(fuzzer.valid_status_codes)

\* The URL task i requests.
TaskUrl(i) == FetchUrl(fuzzer.base_url, tasks[i].path)

\* C1 (admission bound): in every reachable state at most
\* MAX_CONCURRENT_REQUESTS tasks are inside _fetch.
C1_AdmissionBound ==
    Cardinality({i \in Tasks : InFetch(i)}) <= MAX_CONCURRENT_REQUESTS

\* C1's case: a batch larger than the gate, the gate full, a task queued.
C1_Witness ==
    /\ pc = "gather"
    /\ Len(tasks) > MAX_CONCURRENT_REQUESTS
    /\ Cardinality({i \in Tasks : InFetch(i)}) = MAX_CONCURRENT_REQUESTS
    /\ \E i \in Tasks : tasks[i].pc = "waiting"

\* How many times _fetch was invoked for the pair (p, m).
RECURSIVE FetchCount(_, _, _)
FetchCount(ts, p, m) ==
    IF ts = <<>> THEN 0
    ELSE (IF Head(ts).path = p /\ Head(ts).method = m THEN Head(ts).fetches ELSE 0)
         + FetchCount(Tail(ts), p, m)

\* C2 (completeness): when _process_paths returns, _fetch has been invoked
\* exactly once for every pair of a loaded candidate and a configured method.
C2_ExactlyOncePerPair ==
    pc = "save" =>
        \A p \in Range(paths), m \in Range(fuzzer.methods) :
            FetchCount(tasks, p, m) = 1

\* C3 (batch barrier): the step in which _process_paths returns, and any
\* step that writes a file or logs the outcome of _save_results, is taken
\* only when every scheduled work item has completed with a response or a
\* logged failure.
C3_BatchBarrier ==
    [][(\/ pc = "gather" /\ pc' # "gather"
        \/ files' # files
        \/ Len(log') > Len(log) /\ log'[Len(log')] \in {Saved, NoEndpoints})
       => /\ Len(tasks) = Len(paths) * Len(fuzzer.methods)
          /\ \A i \in Tasks :
                /\ tasks[i].pc = "done"
                /\ tasks[i].status.some \/ "ERROR" \in Range(tasks[i].log)]_vars

\* C3's case: the batch is over with a response and a failure among at
\* least three items, and _save_results is about to run.
C3_Witness ==
    /\ pc = "save"
    /\ Len(tasks) >= 3
    /\ \E i, j \in Tasks : Failed(i) /\ Hit(j)

\* C4 (no lost updates): the URL of every task whose response was accepted
\* is in found_endpoints from the step that checked the status on, and at
\* batch end found_endpoints has exactly as many members as there are
\* distinct accepted URLs.
C4_NoLostUpdates ==
    pc \in {"gather", "save"} =>
        /\ \A i \in Tasks : Hit(i) => TaskUrl(i) \in fuzzer.found_endpoints
        /\ pc = "save" =>
              Cardinality(fuzzer.found_endpoints)
                  = Cardinality({TaskUrl(i) : i \in {j \in Tasks : Hit(j)}})

\* C4's case: two tasks are past their accepted status check at the same
\* time, for distinct URLs, while other tasks are still to run.
C4_Witness ==
    /\ pc = "gather"
    /\ \E i, j \in Tasks :
          /\ tasks[i].pc = "responded" /\ tasks[j].pc = "responded"
          /\ Hit(i) /\ Hit(j)
          /\ TaskUrl(i) # TaskUrl(j)
    /\ \E k \in Tasks : tasks[k].pc = "waiting"
    /\ Cardinality(fuzzer.found_endpoints) = 2

\* A step of the batch: a step of one of its tasks, or gather returning.
BatchStep ==
    \/ \E i \in Tasks : BoundFetchStart(i)
    \/ \E i \in Tasks : BoundFetchResume(i)
    \/ \E i \in Tasks, status \in ServerStatus : Response(i, status)
    \/ \E i \in Tasks : FetchReturn(i)
    \/ \E i \in Tasks : TransportError(i)
    \/ GatherReturn

\* The discoveries of the answered tasks among ts.
DiscoveriesOf(ts) ==
    {FetchUrl(fuzzer.base_url, ts[k].path) :
        k \in {j \in 1..Len(ts) :
                  ts[j].status.val \in Range(fuzzer.valid_status_codes)}}

\* C5 (failure isolation): whatever subset of requests raises, the batch
\* can always take a next step until gather returns, every finished item
\* was attempted once and has a status or a logged error (none is cancelled
\* or skipped), and at batch end found_endpoints is the set the items that
\* did not fail yield on their own.
C5_FailureIsolation ==
    /\ pc = "gather" => ENABLED BatchStep
    /\ pc \in {"gather", "save"} =>
          \A i \in Tasks :
              tasks[i].pc = "done" =>
                  /\ tasks[i].fetches = 1
                  /\ tasks[i].status.some \/ "ERROR" \in Range(tasks[i].log)
    /\ pc = "save" =>
          fuzzer.found_endpoints
              = DiscoveriesOf(SelectSeq(tasks, LAMBDA t : t.status.some))

\* C5's case: the batch is over, some requests raised, among them every
\* request for one URL, and another URL was discovered.
C5_Witness ==
    /\ pc = "save"
    /\ \E i, j \in Tasks :
          /\ Failed(i) /\ Hit(j)
          /\ TaskUrl(i) \notin fuzzer.found_endpoints
          /\ TaskUrl(j) \in fuzzer.found_endpoints

\* The status codes of the default acceptance policy: 200-299, 401, 403.
DefaultPolicy == (200..299) \cup {401, 403}

\* C6 (acceptance filter): found_endpoints is empty until the batch runs;
\* at batch end a URL is in it exactly when some request for it got a
\* response whose status is in the run's acceptance policy; under the
\* default policy that means a status in 200-299, 401 or 403, so a 401
\* discovers its URL and a URL answered only with 404 is not discovered.
C6_AcceptanceFilter ==
    /\ pc \in {"start", "loaded"} => fuzzer.found_endpoints = {}
    /\ pc = "save" =>
          /\ fuzzer.found_endpoints = {TaskUrl(i) : i \in {j \in Tasks : Hit(j)}}
          /\ fuzzer.valid_status_codes = VALID_STATUS_CODES =>
                /\ \A i \in Tasks :
                      Answered(i) /\ tasks[i].status.val = 401
                          => TaskUrl(i) \in fuzzer.found_endpoints
                /\ \A u \in fuzzer.found_endpoints :
                      \E i \in Tasks :
                          /\ TaskUrl(i) = u
                          /\ Answered(i)
                          /\ tasks[i].status.val \in DefaultPolicy

\* C6's case: under the default policy one URL was answered 404 and is not
\* discovered, another was answered 401 and is.
C6_Witness ==
    /\ pc = "save"
    /\ fuzzer.valid_status_codes = VALID_STATUS_CODES
    /\ \E i, j \in Tasks :
          /\ Answered(i) /\ tasks[i].status.val = 404
          /\ TaskUrl(i) \notin fuzzer.found_endpoints
          /\ Answered(j) /\ tasks[j].status.val = 401
          /\ TaskUrl(j) \in fuzzer.found_endpoints

\* C7 (idempotent discovery): candidates that differ only in leading
\* separators, and the methods of one candidate, resolve to one URL; however
\* many accepted requests resolve to it, found_endpoints holds one member
\* per distinct separator-stripped candidate with an accepted request.
C7_IdempotentDiscovery ==
    pc \in {"gather", "save"} =>
        Cardinality(fuzzer.found_endpoints)
            = Cardinality({LStrip(tasks[i].path, {"/"}) : i \in {j \in Tasks : Hit(j)}})

\* C7's case: accepted requests for the candidates 'admin' and '/admin',
\* and two accepted requests for one candidate, leave a single member.
C7_Witness ==
    /\ pc = "save"
    /\ \E i, j, k \in Tasks :
          /\ Hit(i) /\ Hit(j) /\ Hit(k)
          /\ tasks[i].path # tasks[j].path
          /\ LStrip(tasks[i].path, {"/"}) = LStrip(tasks[j].path, {"/"})
          /\ k # i /\ tasks[k].path = tasks[i].path
    /\ Cardinality(fuzzer.found_endpoints) = 1

\* C8 (empty result): when _save_results runs with an empty
\* found_endpoints it logs the warning and the file system stays as it was.
C8_EmptyResultLeavesFiles ==
    [][pc = "save" /\ fuzzer.found_endpoints = {}
       => files' = files /\ log' = Append(log, NoEndpoints)]_vars

\* C8's case: a run ended with nothing discovered, the warning is the last
\* log line and the output file still holds what an earlier run wrote.
C8_Witness ==
    /\ pc = "menu"
    /\ fuzzer.session = "closed"
    /\ fuzzer.found_endpoints = {}
    /\ log # <<>> /\ log[Len(log)] = NoEndpoints
    /\ FileAt(files, fuzzer.output_file) = FileOf(OldOutput)

\* A line of a text file without its terminating newline.
LineBody(l) == SubSeq(l, 1, Len(l) - 1)

\* C9 (sorted output): after _save_results ran with a non-empty
\* found_endpoints, the output file has one newline-terminated line per
\* member, every line is a member, and the lines ascend strictly in
\* code-point order; nothing of the prior contents is left.
C9_SortedOutput ==
    pc = "menu" /\ fuzzer.session = "closed" /\ fuzzer.found_endpoints # {} =>
        LET file == FileAt(files, fuzzer.output_file)
            lines == FileLines(file.data)
        IN  /\ file.exists
            /\ Len(lines) = Cardinality(fuzzer.found_endpoints)
            /\ \A k \in 1..Len(lines) :
                  /\ lines[k][Len(lines[k])] = "\n"
                  /\ LineBody(lines[k]) \in fuzzer.found_endpoints
            /\ \A k \in 1..(Len(lines) - 1) :
                  StrLess(LineBody(lines[k]), LineBody(lines[k + 1]))

\* C9's case: two URLs were discovered and written over the contents an
\* earlier run had left.
C9_Witness ==
    /\ pc = "menu"
    /\ fuzzer.session = "closed"
    /\ Cardinality(fuzzer.found_endpoints) = 2
    /\ log[Len(log)] = Saved
    /\ FileAt(files, fuzzer.output_file).exists
    /\ FileAt(files, fuzzer.output_file) # FileOf(OldOutput)

\* The non-blank stripped lines of a file, as a set.
CandidateLines(file) ==
    IF file.exists
    THEN {Strip(l) : l \in Range(FileLines(file.data))} \ {<<>>}
    ELSE {}

\* C10 (candidate merge): the list _load_wordlist returned holds exactly the
\* non-blank stripped lines of the candidate file and the entries of
\* COMMON_PATHS, each once; with no candidate file it holds exactly the
\* entries of COMMON_PATHS.
C10_CandidateMerge ==
    pc \in {"loaded", "gather", "save"} =>
        LET file == FileAt(files, fuzzer.wordlist)
            expected == CandidateLines(file) \cup Range(COMMON_PATHS)
        IN  /\ Range(paths) = expected
            /\ Len(paths) = Cardinality(expected)
            /\ ~file.exists =>
                  Range(paths) = Range(COMMON_PATHS) /\ Len(paths) = Len(COMMON_PATHS)

\* C10's case: a file with a blank line, a padded line, a repeated line and
\* a line equal to a built-in entry was merged into two candidates.
C10_Witness ==
    /\ pc = "loaded"
    /\ LET file == FileAt(files, fuzzer.wordlist)
       IN  /\ file.exists
           /\ Len(FileLines(file.data)) = 4
           /\ \E l \in Range(FileLines(file.data)) : Strip(l) \in Range(COMMON_PATHS)
    /\ Len(paths) = 2

\* C10's second case: the candidate file is missing and the built-in list
\* was returned.
C10_WitnessMissing ==
    /\ pc = "loaded"
    /\ ~FileAt(files, fuzzer.wordlist).exists
    /\ Range(paths) = Range(COMMON_PATHS)

\* The shell's target is set to a non-empty string.
TargetSet == base_url.some /\ Len(base_url.val) > 0

\* C11 (Start requires a target): a run is dispatched only from a menu state
\* whose target is set and non-empty; while the target is unset no step
\* constructs a fuzzer, starts a run or touches the run state and the files,
\* and the step that reports the missing target leaves every configuration
\* value as it was and stays in the menu.
C11_StartRequiresTarget ==
    [][/\ (runs' # runs \/ pc' = "start" \/ (pc = "menu" /\ fuzzer' # fuzzer))
              => TargetSet
       /\ (pc = "menu" /\ ~TargetSet)
              => /\ run' = run
                 /\ files' = files
                 /\ (console' = "set-target-first")
                        => (config' = config /\ pc' = "menu")]_vars

\* Start was chosen with no target, also after a Configure step that left
\* the target blank.
C11_Witness ==
    /\ console = "set-target-first"
    /\ pc = "menu"
    /\ ~TargetSet
    /\ configures = 1
    /\ wordlist # DEFAULT_WORDLIST

\* Inputs json.loads rejects, and a status code list int() rejects.
MalformedJson == {<<"{">>, <<"{", "}", "}">>}
NonIntegerCodes == {<<"4", "0", "x">>}

\* The program ended with a traceback during a Configure step.
ConfigureCrashed == pc = "crashed" /\ console = "traceback" /\ runs = 0

\* C12 (configuration error): a Configure step whose headers or cookies input
\* is malformed JSON, or whose status code input has a non-integer entry,
\* ends with the exception shown to the operator, and no step follows it: no
\* run is dispatched with the values of that step.
C12_ConfigurationError ==
    [][/\ (pc = "menu" /\ configures' # configures) =>
              \A ui \in UrlInputs, wi \in WordlistInputs, oi \in OutputInputs,
                 hi \in HeaderInputs, ci \in CookieInputs, mi \in MethodInputs,
                 si \in StatusInputs :
                 (/\ ConfigureStep(ui, wi, oi, hi, ci, mi, si)
                  /\ \/ hi \in MalformedJson
                     \/ ci \in MalformedJson
                     \/ si \in NonIntegerCodes)
                 => (pc' = "crashed" /\ console' = "traceback" /\ run' = run)
       /\ pc # "crashed"]_vars

\* The status code input was rejected after the target and the methods of
\* the same step had been assigned.
C12_Witness ==
    /\ ConfigureCrashed
    /\ TargetSet
    /\ methods # DEFAULT_METHODS
    /\ valid_status_codes = VALID_STATUS_CODES

(***************************************************************************)
(* The menu on its own, with a wider choice of answers to the prompts of   *)
(* choice '2' and two configuration steps, so that a value set by one step *)
(* meets a blank or a new answer in the next.                              *)
(***************************************************************************)

\* Configuration steps explored in the menu on its own.
MaxShellConfigures == 2

ShellUrlInputs == {<<>>, <<" ", "u">>}
ShellWordlistInputs == {<<" ">>, <<"w">>}
ShellOutputInputs == {<<>>, <<"o">>}
ShellHeaderInputs ==
    {<<" ", " ">>, <<"{", "\"", "k", "\"", ":", "\"", "v", "\"", "}">>}
ShellCookieInputs ==
    {<<>>, <<"{", "\"", "c", "\"", ":", "\"", "d", "\"", "}", " ">>}
ShellMethodInputs == {<<"\n">>, <<"G", "E", "T">>}
ShellStatusInputs == {<<>>, <<"2", "0", "0", ",", "3", "0", "2">>}

\* choice '2' in the menu on its own.
ShellConfigure ==
    /\ configures < MaxShellConfigures
    /\ \E ui \in ShellUrlInputs, wi \in ShellWordlistInputs,
          oi \in ShellOutputInputs, hi \in ShellHeaderInputs,
          ci \in ShellCookieInputs, mi \in ShellMethodInputs,
          si \in ShellStatusInputs : ConfigureStep(ui, wi, oi, hi, ci, mi, si)

NextShell ==
    \/ StartRefused
    \/ ShellConfigure
    \/ ViewConfig
    \/ Exit
    \/ InvalidChoice

SpecShell == Init /\ [][NextShell]_vars

\* The answer is empty or white space only.
Blank(x) == \A k \in 1..Len(x) : x[k] \in {" ", "\n"}

\* What each non-blank answer above stands for.
MeaningOf(x) ==
    CASE x = <<" ", "u">> -> <<"u">>
      [] x = <<"w">> -> <<"w">>
      [] x = <<"o">> -> <<"o">>
      [] x = <<"{", "\"", "k", "\"", ":", "\"", "v", "\"", "}">> -> {<<<<"k">>, <<"v">>>>}
      [] x = <<"{", "\"", "c", "\"", ":", "\"", "d", "\"", "}", " ">> -> {<<<<"c">>, <<"d">>>>}
      [] x = <<"G", "E", "T">> -> << <<"G", "E", "T">> >>
      [] x = <<"2", "0", "0", ",", "3", "0", "2">> -> <<200, 302>>

\* A setting after a step of choice '2', given its answer and the value before.
KeptOrSet(answer, before, after) ==
    IF Blank(answer) THEN after = before ELSE after = MeaningOf(answer)

InRun == pc \in {"start", "loaded", "gather", "save"}

C15_MonotoneDiscovered ==
    [][(InRun \/ runs' = runs)
          => fuzzer.found_endpoints \subseteq fuzzer'.found_endpoints]_vars

\* C15's case: a URL was discovered by one request and a later request for
\* the same URL was answered with a status outside the policy, with another
\* discovery in the set.
C15_Witness ==
    /\ pc = "gather"
    /\ Cardinality(fuzzer.found_endpoints) = 2
    /\ \E i, j \in Tasks :
          /\ i # j
          /\ TaskUrl(i) = TaskUrl(j)
          /\ tasks[i].pc = "done" /\ Hit(i)
          /\ tasks[j].pc = "responded" /\ ~Hit(j)

(***************************************************************************)
(* The program under a fair event loop: a batch that can take a step takes *)
(* one, and every issued request is eventually answered or fails.          *)
(***************************************************************************)

\* Answers to choice '2' and server statuses of the runs followed to their
\* end: a target, the candidate file or the built-in list, one or two
\* methods, so that batches of one to four work items meet a gate of
\* MAX_CONCURRENT_REQUESTS slots.
LiveUrlInputs == {<<"t", "/">>}
LiveWordlistInputs == {<<>>, <<" ", "w">>}
LiveMethodInputs == {<<>>, <<"G", "E", "T", ",", "H", "E", "A", "D">>}
LiveStatus == {200, 404}

LiveConfigure ==
    \E ui \in LiveUrlInputs, wi \in LiveWordlistInputs, mi \in LiveMethodInputs :
        Configure(ui, wi, <<>>, <<>>, <<>>, mi, <<>>)

LiveResponse == \E i \in 1..Len(tasks), status \in LiveStatus : Response(i, status)

\* A step of a batch of these runs.
LiveBatchStep ==
    \/ \E i \in 1..Len(tasks) : BoundFetchStart(i)
    \/ \E i \in 1..Len(tasks) : BoundFetchResume(i)
    \/ LiveResponse
    \/ \E i \in 1..Len(tasks) : FetchReturn(i)
    \/ \E i \in 1..Len(tasks) : TransportError(i)
    \/ GatherReturn

NextLive ==
    \/ StartRefused
    \/ Start
    \/ LiveConfigure
    \/ ViewConfig
    \/ Exit
    \/ InvalidChoice
    \/ StartLoad
    \/ ProcessPaths
    \/ LiveBatchStep
    \/ SaveResults
    \/ SaveFails

SpecLive ==
    /\ Init
    /\ [][NextLive]_vars
    /\ WF_vars(LiveBatchStep)

\* C16 (batch termination): under the fair event loop a batch eventually
\* reaches _save_results with every one of its work items having been
\* inside _fetch with a slot; and as long as a request stays unanswered its
\* slot stays taken and the batch does not complete.
C16_BatchTermination ==
    /\ (pc = "gather")
          ~> (pc = "save" /\ \A i \in 1..Len(tasks) : tasks[i].fetches = 1)
    /\ [][\A i \in 1..Len(tasks) :
             (Len(tasks') = Len(tasks) /\ tasks[i].pc = "request"
                  /\ tasks'[i].pc = "request")
                 => (pc' = "gather" /\ sem'.value < MAX_CONCURRENT_REQUESTS)]_vars

\* C16's case: a batch came to its end although items had to queue for a
\* slot.
C16_Witness ==
    /\ pc = "save"
    /\ Len(tasks) > MAX_CONCURRENT_REQUESTS
    /\ \A i \in Tasks : tasks[i].fetches = 1

\* C17 (executor failure outcome): the step in which a task's request
\* raises adds one error line to that task's log, leaves the task finished
\* with no status, leaves found_endpoints and the fuzzer as they were, and
\* raises nothing: the batch is still gathering and every other task is as
\* it was.
C17_FailureOutcome ==
    [][\A i \in 1..Len(tasks) :
          (/\ Len(tasks') = Len(tasks)
           /\ tasks[i].pc = "request"
           /\ tasks'[i].pc = "done")
          => /\ tasks'[i].log = Append(tasks[i].log, "ERROR")
             /\ tasks'[i].status = NoStatus
             /\ tasks'[i].fetches = tasks[i].fetches
             /\ fuzzer' = fuzzer
             /\ pc' = "gather"
             /\ \A j \in 1..Len(tasks) : j # i => tasks'[j] = tasks[j]]_vars

\* C17's case: a request has failed while a discovery was in the set and
\* other tasks were still in their requests or queued.
C17_Witness ==
    /\ pc = "gather"
    /\ fuzzer.found_endpoints # {}
    /\ \E i, j, k \in Tasks :
          /\ Failed(i) /\ tasks[i].log = <<"ERROR">>
          /\ tasks[j].pc = "request"
          /\ tasks[k].pc = "waiting"

\* The number of per-attempt log lines the tasks ts have written.
RECURSIVE AttemptLines(_)
AttemptLines(ts) ==
    IF ts = <<>> THEN 0 ELSE Len(Head(ts).log) + AttemptLines(Tail(ts))

\* C18 (one log line per attempt), as claimed: every finished attempt has
\* written exactly one log line, a discovery line if it got its response
\* and an error line if it failed, and at batch end there are as many
\* per-attempt lines as work items.
C18_OneLinePerAttempt ==
    pc \in {"gather", "save"} =>
        /\ \A i \in Tasks :
              tasks[i].pc = "done" =>
                  tasks[i].log = IF Failed(i) THEN <<"ERROR">> ELSE <<"INFO">>
        /\ pc = "save" => AttemptLines(tasks) = Len(tasks)

\* C18 as amended: a finished attempt has written one discovery line if its
\* response had an accepted status, one error line if its request raised,
\* and no line if its response had a status outside the policy; at batch
\* end the per-attempt lines are as many as the accepted and the failed
\* items together.
C18_LinePerOutcome ==
    pc \in {"gather", "save"} =>
        /\ \A i \in Tasks :
              tasks[i].pc = "done" =>
                  tasks[i].log = IF Failed(i) THEN <<"ERROR">>
                                 ELSE IF Hit(i) THEN <<"INFO">>
                                 ELSE <<>>
        /\ pc = "save" =>
              AttemptLines(tasks)
                  = Cardinality({i \in Tasks : Failed(i) \/ Hit(i)})

\* C18's case: a batch ended with a discovery, a failure and a response
\* outside the policy, which left no line.
C18_Witness ==
    /\ pc = "save"
    /\ \E i, j, k \in Tasks :
          /\ Hit(i) /\ tasks[i].log = <<"INFO">>
          /\ Failed(j) /\ tasks[j].log = <<"ERROR">>
          /\ Answered(k) /\ ~Hit(k) /\ tasks[k].log = <<>>
    /\ AttemptLines(tasks) < Len(tasks)

\* Task i has been given a slot and has not yet released it: it is inside
\* _fetch, or it queued and release() has handed it the slot it will resume
\* with.
HoldsSlot(i) ==
    \/ InFetch(i)
    \/ tasks[i].pc = "waiting" /\ SemWoken(sem, i)

\* C19 (gate slot conservation): during a batch the slots taken from the
\* semaphore are as many as the tasks that hold one; a task that has not
\* been given a slot has issued no request, a task that has finished,
\* with a response or a failure, holds none; and when the batch is complete
\* all MAX_CONCURRENT_REQUESTS slots are free and nobody is queued.
C19_SlotConservation ==
    pc \in {"gather", "save"} =>
        /\ sem.value \in 0..MAX_CONCURRENT_REQUESTS
        /\ MAX_CONCURRENT_REQUESTS - sem.value
               = Cardinality({i \in Tasks : HoldsSlot(i)})
        /\ \A i \in Tasks :
              /\ (tasks[i].pc \in {"created", "waiting"}) => tasks[i].fetches = 0
              /\ tasks[i].pc = "waiting" =>
                    \E k \in 1..Len(sem.waiters) : sem.waiters[k].task = i
              /\ tasks[i].pc # "waiting" =>
                    \A k \in 1..Len(sem.waiters) : sem.waiters[k].task # i
        /\ pc = "save" =>
              (sem.value = MAX_CONCURRENT_REQUESTS /\ sem.waiters = <<>>)

\* C19's case: one task runs its request, one has failed and released, one
\* has been handed the released slot and not resumed yet, one is queued.
C19_Witness ==
    /\ pc = "gather"
    /\ sem.value = 0
    /\ \E i, j, k, l \in Tasks :
          /\ tasks[i].pc = "request"
          /\ Failed(j)
          /\ tasks[k].pc = "waiting" /\ SemWoken(sem, k)
          /\ tasks[l].pc = "waiting" /\ ~SemWoken(sem, l)

(***************************************************************************)
(* A shell session with several runs: one configuration step with a target, *)
(* the candidate file and two methods, then Start chosen again and again.  *)
(***************************************************************************)

\* Runs explored in a shell session with several runs.
MaxSessionRuns == 2

\* choice '1', again after a run has returned to the menu.
StartAgain == runs < MaxSessionRuns /\ Dispatch

SessionConfigure ==
    Configure(<<"t", "/">>, <<" ", "w">>, <<>>, <<>>, <<>>,
              <<"G", "E", "T", ",", "H", "E", "A", "D">>, <<>>)

NextSession ==
    \/ StartRefused
    \/ StartAgain
    \/ SessionConfigure
    \/ ViewConfig
    \/ Exit
    \/ InvalidChoice
    \/ StartLoad
    \/ ProcessPaths
    \/ LiveBatchStep
    \/ SaveResults
    \/ SaveFails

SpecSession == Init /\ [][NextSession]_vars

\* C20 (run independence): in every run of a shell session found_endpoints
\* is empty until the batch starts and from then on holds exactly the URLs
\* of this run's own accepted responses, whatever an earlier run found; and
\* no step of a run changes a configuration value of the shell.
C20_RunIndependence ==
    /\ [](/\ pc \in {"start", "loaded"} => fuzzer.found_endpoints = {}
          /\ pc \in {"gather", "save"} =>
                fuzzer.found_endpoints
                    = {TaskUrl(i) : i \in {j \in Tasks : Hit(j)}})
    /\ [][InRun => config' = config]_vars

\* C20's case: the first run of the session discovered endpoints and saved
\* them; the second run, whose requests were all answered with a status
\* outside the policy, ends with an empty set.
C20_Witness ==
    /\ runs = 2
    /\ pc = "save"
    /\ \E k \in 1..Len(log) : log[k] = Saved
    /\ \A i \in Tasks : Answered(i) /\ ~Hit(i)
    /\ fuzzer.found_endpoints = {}

====
